---- MODULE Spec2Model ----
(***************************************************************************)
(* Model of the ESP32-S3 onboard NeoPixel rainbow driver                   *)
(* (main/esp32s3_onboard_LED.c, the encapsulated driver, with the flat     *)
(* main/led_strip_example_main.c naming the same steps).                   *)
(*                                                                         *)
(* Part 1: IEEE-754 binary32 arithmetic, as hsv_to_grb uses it.            *)
(* Part 2: hsv_to_grb.                                                     *)
(* Part 3: the driver (app_main, initialize_led_controller,                *)
(*         update_led_color) and the RMT transmit queue it feeds.          *)
(* Part 4: the properties.                                                 *)
(***************************************************************************)
EXTENDS Integers, Sequences, FiniteSets

(***************************************************************************)
(* Part 1.  binary32 values.  A float is [m, e] standing for m * 2^e, with *)
(* m = 0 (and e = 0) or 2^23 <= m < 2^24.  Every value hsv_to_grb computes *)
(* for saturation and value in 0..100 is non-negative and far from the     *)
(* exponent limits, so sign, subnormals, infinities and NaN are not        *)
(* represented.  Rounding is round-to-nearest, ties-to-even.  All          *)
(* intermediate integers stay below 2^31.                                  *)
(***************************************************************************)

RECURSIVE Pow2R(_)
Pow2R(k) == IF k <= 0 THEN 1 ELSE 2 * Pow2R(k - 1)

\* 2^k for k in 0..30 (and 1 below 0), tabulated once.
Pow2Tab == [k \in 0..30 |-> Pow2R(k)]
Pow2(k) == IF k <= 0 THEN 1 ELSE Pow2Tab[k]

RECURSIVE BitLenR(_)
BitLenR(n) == IF n <= 0 THEN 0 ELSE 1 + BitLenR(n \div 2)

\* The number of significant bits of n >= 0, a byte at a time.
BitLenTab == [n \in 0..255 |-> BitLenR(n)]
RECURSIVE BitLen(_)
BitLen(n) == IF n >= 256 THEN 8 + BitLen(n \div 256) ELSE BitLenTab[n]

FZero == [m |-> 0, e |-> 0]

\* n * 2^e with 0 <= n < 2^24: exactly representable, only normalised.
FNorm(n, e) ==
    IF n = 0 THEN FZero
    ELSE LET s == 24 - BitLen(n) IN [m |-> n * Pow2(s), e |-> e - s]

\* n * 2^e rounded to binary32, 0 <= n < 2^30.  When bits were discarded
\* below n, the caller has or-ed them into bit 0 of n (a sticky bit) and n
\* has at least 26 bits, so bit 0 lies strictly below the rounding position.
FRound(n, e) ==
    LET len == BitLen(n) IN
    IF len <= 24 THEN FNorm(n, e)
    ELSE LET sh   == len - 24
             q    == n \div Pow2(sh)
             rem  == n % Pow2(sh)
             half == Pow2(sh - 1)
             up   == IF rem > half \/ (rem = half /\ q % 2 = 1) THEN 1 ELSE 0
         IN  IF q + up = Pow2(24)
             THEN [m |-> Pow2(23), e |-> e + sh + 1]
             ELSE [m |-> q + up, e |-> e + sh]

\* (float) of an unsigned integer below 2^24: exact.
IntToFloat(n) == FNorm(n, 0)

\* a / b in binary32, b # 0.  Long division of the mantissas, seven quotient
\* bits at a time, 29 quotient bits plus the sticky remainder.
FDiv(a, b) ==
    IF a.m = 0 THEN FZero
    ELSE LET q0 == a.m \div b.m
             r0 == a.m % b.m
             q1 == (r0 * 128) \div b.m
             r1 == (r0 * 128) % b.m
             q2 == (r1 * 128) \div b.m
             r2 == (r1 * 128) % b.m
             q3 == (r2 * 128) \div b.m
             r3 == (r2 * 128) % b.m
             q4 == (r3 * 128) \div b.m
             r4 == (r3 * 128) % b.m
             Q  == q0 * Pow2(28) + q1 * Pow2(21) + q2 * Pow2(14) + q3 * 128 + q4
             st == IF r4 # 0 THEN 1 ELSE 0
         IN  FRound(2 * Q + st, a.e - b.e - 29)

\* a * b in binary32.  The 48-bit product of the mantissas is formed from
\* 12-bit halves as hi * 2^24 + lo and cut to 28 bits plus sticky.
FMul(a, b) ==
    IF a.m = 0 \/ b.m = 0 THEN FZero
    ELSE LET a1  == a.m \div 4096
             a0  == a.m % 4096
             b1  == b.m \div 4096
             b0  == b.m % 4096
             mid == a1 * b0 + a0 * b1
             los == (mid % 4096) * 4096 + a0 * b0
             lo  == los % Pow2(24)
             hi  == a1 * b1 + (mid \div 4096) + (los \div Pow2(24))
             sh  == BitLen(hi) - 4
             n   == hi * Pow2(24 - sh) + (lo \div Pow2(sh))
             st  == IF lo % Pow2(sh) # 0 THEN 1 ELSE 0
         IN  FRound(2 * n + st, a.e + b.e + sh - 1)

\* big + sign * small in binary32 for big >= small >= 0 and sign in {1, -1}:
\* the smaller operand is aligned to the larger with five extra bits, the
\* bits shifted out below them or-ed into the lowest one (sticky).
FAddSub(big, small, sign) ==
    IF small.m = 0 THEN big
    ELSE LET d  == big.e - small.e
             A  == big.m * 32
             B  == IF d > 28 THEN 0 ELSE (small.m * 16) \div Pow2(d)
             st == IF d > 28 \/ (small.m * 16) % Pow2(d) # 0 THEN 1 ELSE 0
         IN  FRound(A + sign * (2 * B + st), big.e - 5)

FLe(a, b) ==
    \/ a.m = 0
    \/ b.m # 0 /\ (a.e < b.e \/ (a.e = b.e /\ a.m <= b.m))

\* a + b, both non-negative.
FAdd(a, b) == IF FLe(b, a) THEN FAddSub(a, b, 1) ELSE FAddSub(b, a, 1)

\* a - b for a >= b >= 0.
FSub(a, b) == FAddSub(a, b, -1)

\* (uint8_t) of a float in [0, 256): truncation toward zero.
FToU8(a) == IF a.m = 0 \/ a.e < -30 THEN 0 ELSE a.m \div Pow2(-a.e)

(***************************************************************************)
(* Part 2.  hsv_to_grb (esp32s3_onboard_LED.c:74-103, and the same code in *)
(* led_strip_example_main.c:22-48).                                        *)
(***************************************************************************)

\* Conversion of an integer argument to the uint16_t / uint8_t parameter.
U16(x) == x % 65536
U8(x)  == x % 256

\* Mutant of NormHue: the reduction modulo 360 left out.
NormHue_None(h) == U16(h)

\* h %= 360 on the uint16_t parameter h.
NormHue(h) == U16(h) % 360

\* 1 - fabs(fmod(x, 2) - 1), evaluated in double on a float x in [0, 6).
\* fmod is exact, and so are the two subtractions: every intermediate is a
\* multiple of the float's unit 2^e no larger than 2, and the result has at
\* most 24 significant bits, so it is returned as a float without rounding.
Ramp(x) ==
    IF x.m = 0 THEN FZero
    ELSE LET one == Pow2(-x.e)
             f   == x.m % (2 * one)
             t   == IF f >= one THEN f - one ELSE one - f
         IN  FNorm(one - t, x.e)

\* Mutant of Sector: the first two branches exchanged.
Sector_Swapped(h, C, X) ==
    IF h < 60       THEN [r |-> X,     g |-> C,     b |-> FZero]
    ELSE IF h < 120 THEN [r |-> C,     g |-> X,     b |-> FZero]
    ELSE IF h < 180 THEN [r |-> FZero, g |-> C,     b |-> X]
    ELSE IF h < 240 THEN [r |-> FZero, g |-> X,     b |-> C]
    ELSE IF h < 300 THEN [r |-> X,     g |-> FZero, b |-> C]
    ELSE                 [r |-> C,     g |-> FZero, b |-> X]

\* The six-way sector choice: which of C, X, 0 goes to r, g and b.
Sector(h, C, X) ==
    IF h < 60       THEN [r |-> C,     g |-> X,     b |-> FZero]
    ELSE IF h < 120 THEN [r |-> X,     g |-> C,     b |-> FZero]
    ELSE IF h < 180 THEN [r |-> FZero, g |-> C,     b |-> X]
    ELSE IF h < 240 THEN [r |-> FZero, g |-> X,     b |-> C]
    ELSE IF h < 300 THEN [r |-> X,     g |-> FZero, b |-> C]
    ELSE                 [r |-> C,     g |-> FZero, b |-> X]

\* Mutant of Scale: the channel scaled by 256.
Scale_By256(c, m) == FToU8(FMul(FAdd(c, m), IntToFloat(256)))

\* (c + m) * 255 stored into a uint8_t.
Scale(c, m) == FToU8(FMul(FAdd(c, m), IntToFloat(255)))

\* The body of hsv_to_grb up to the sector choice: the float locals r, g, b
\* and the offset m.  C * (1 - fabs(...)) is a double product of two values
\* of at most 24 bits, hence exact, rounded once when stored into float X.
HsvLocals(h, s, v) ==
    LET hn == NormHue(h)
        S  == FDiv(IntToFloat(U8(s)), IntToFloat(100))
        V  == FDiv(IntToFloat(U8(v)), IntToFloat(100))
        C  == FMul(V, S)
        X  == FMul(C, Ramp(FDiv(IntToFloat(hn), IntToFloat(60))))
        m  == FSub(V, C)
        c  == Sector(hn, C, X)
    IN  [r |-> c.r, g |-> c.g, b |-> c.b, m |-> m]

\* Mutant of GrbOrder: the bytes stored in computation order r, g, b.
GrbOrder_Rgb(red, green, blue) == <<red, green, blue>>

\* The byte order of the stores grb[0], grb[1], grb[2].
GrbOrder(red, green, blue) == <<green, red, blue>>

hsv_to_grb(h, s, v) ==
    LET l == HsvLocals(h, s, v)
    IN  GrbOrder(Scale(l.r, l.m), Scale(l.g, l.m), Scale(l.b, l.m))

(***************************************************************************)
(* Part 3.  The driver.                                                    *)
(*                                                                         *)
(* app_main brings the RMT channel up (initialize_led_controller: three    *)
(* calls, each under ESP_ERROR_CHECK) and then loops forever over          *)
(* update_led_color and vTaskDelay.  pc is the position of that one task.  *)
(* rmt_transmit hands the driver a pointer to grb_data: the transaction    *)
(* is started at once when the channel is idle and queued otherwise (the   *)
(* channel is created with trans_queue_depth = 4); the transmit-done       *)
(* interrupt (TxDone) retires the transaction on the line and starts the   *)
(* next queued one, encoding whatever grb_data holds at that moment.       *)
(***************************************************************************)

HUE_STEP == 2
RAINBOW_SPEED == 20
TRANS_QUEUE_DEPTH == 4

\* Steps counted before the step counter saturates.
MaxSteps == 200

VARIABLES
    pc,           \* position of the app_main task
    channel,      \* controller.channel: "null", "init" or "enabled"
    encoder,      \* controller.encoder: "null" or "created"
    current_hue,  \* controller.current_hue (uint16_t)
    grb_data,     \* controller.grb_data (uint8_t[3])
    failed,       \* the call whose error code reached ESP_ERROR_CHECK, or "none"
    tx_queue,     \* transactions handed to rmt_transmit and not yet done;
                  \* each remembers the bytes grb_data held at the call
    wire,         \* the frame last encoded for the LED line (<<>>: none yet)
    log_out,      \* the last ESP_LOGI line of update_led_color
    args,         \* the arguments of the last hsv_to_grb call
    last_tx,      \* the hue and frame of the last rmt_transmit call
    steps,        \* completed update_led_color calls (saturates at MaxSteps)
    records,      \* ESP_LOGI lines emitted while steps < MaxSteps
    delayed,      \* milliseconds asked of the last vTaskDelay (0: none yet)
    flat          \* the state of app_main of led_strip_example_main.c, run
                  \* side by side with the driver (a record, see FlatInit)

vars == <<pc, channel, encoder, current_hue, grb_data, failed, tx_queue, wire,
          log_out, args, last_tx, steps, records, delayed, flat>>

\* The variables of the driver alone.
driver_vars == <<pc, channel, encoder, current_hue, grb_data, failed, tx_queue,
                 wire, log_out, args, last_tx, steps, records, delayed>>

ESP_OK   == "ESP_OK"
ESP_FAIL == "ESP_FAIL"
ErrCodes == {ESP_OK, ESP_FAIL}

NoArgs   == [h |-> 0, s |-> 0, v |-> 0]
NoRecord == [hue |-> -1, grb |-> <<>>]
NoTx     == [hue |-> -1, frame |-> <<>>]

\* led_strip_example_main.c: app_main before its first call.  led_chan and
\* led_encoder start NULL (lines 54, 64); grb_data and hue are the locals of
\* lines 71 and 73, initialised to 0 before their first use.
FlatInit ==
    [pc          |-> "rmt_new_tx_channel",
     led_chan    |-> "null",
     led_encoder |-> "null",
     hue         |-> 0,
     grb_data    |-> <<0, 0, 0>>,
     failed      |-> "none",
     tx_queue    |-> <<>>,
     wire        |-> <<>>,
     log_out     |-> NoRecord,
     last_tx     |-> NoTx,
     steps       |-> 0,
     records     |-> 0,
     delayed     |-> 0]

\* led_controller_t controller = {0}; nothing sent, nothing logged.
Init ==
    /\ pc = "rmt_new_tx_channel"
    /\ channel = "null"
    /\ encoder = "null"
    /\ current_hue = 0
    /\ grb_data = <<0, 0, 0>>
    /\ failed = "none"
    /\ tx_queue = <<>>
    /\ wire = <<>>
    /\ log_out = NoRecord
    /\ args = NoArgs
    /\ last_tx = NoTx
    /\ steps = 0
    /\ records = 0
    /\ delayed = 0
    /\ flat = FlatInit

\* Mutant of ErrorCheck: the error code is noted and execution continues.
ErrorCheck_Continue(call, rc, next) ==
    pc' = next /\ failed' = IF rc = ESP_OK THEN failed ELSE call

\* ESP_ERROR_CHECK(x): abort() unless x is ESP_OK.
ErrorCheck(call, rc, next) ==
    IF rc = ESP_OK
    THEN pc' = next /\ failed' = failed
    ELSE pc' = "abort" /\ failed' = call

NewTxChannel ==
    /\ pc = "rmt_new_tx_channel"
    /\ \E rc \in ErrCodes :
          /\ ErrorCheck("rmt_new_tx_channel", rc, "rmt_new_led_strip_encoder")
          /\ channel' = IF rc = ESP_OK THEN "init" ELSE channel
    /\ UNCHANGED <<flat, encoder, current_hue, grb_data, tx_queue, wire, log_out,
                   args, last_tx, steps, records, delayed>>

NewLedStripEncoder ==
    /\ pc = "rmt_new_led_strip_encoder"
    /\ \E rc \in ErrCodes :
          /\ ErrorCheck("rmt_new_led_strip_encoder", rc, "rmt_enable")
          /\ encoder' = IF rc = ESP_OK THEN "created" ELSE encoder
    /\ UNCHANGED <<flat, channel, current_hue, grb_data, tx_queue, wire, log_out,
                   args, last_tx, steps, records, delayed>>

\* Mutant of RmtEnable: the result of rmt_enable is not checked.
RmtEnable_Unchecked ==
    /\ pc = "rmt_enable"
    /\ \E rc \in ErrCodes :
          /\ pc' = "convert"
          /\ failed' = failed
          /\ channel' = IF rc = ESP_OK THEN "enabled" ELSE channel
    /\ UNCHANGED <<flat, encoder, current_hue, grb_data, tx_queue, wire, log_out,
                   args, last_tx, steps, records, delayed>>

\* initialize_led_controller, line 131.
RmtEnable ==
    /\ pc = "rmt_enable"
    /\ \E rc \in ErrCodes :
          /\ ErrorCheck("rmt_enable", rc, "convert")
          /\ channel' = IF rc = ESP_OK THEN "enabled" ELSE channel
    /\ UNCHANGED <<flat, encoder, current_hue, grb_data, tx_queue, wire, log_out,
                   args, last_tx, steps, records, delayed>>

\* The call hsv_to_grb(hue, 100, 100) of line 147.  hsv_to_grb reduces its
\* hue modulo 360 before anything else, so the 360 results are tabulated
\* once and looked up by the reduced hue.
RainbowTab == [hn \in 0..359 |-> hsv_to_grb(hn, 100, 100)]
Rainbow(hue) == RainbowTab[U16(hue) % 360]

RainbowHalfTab == [hn \in 0..359 |-> hsv_to_grb(hn, 100, 50)]
RainbowHalf(hue) == RainbowHalfTab[U16(hue) % 360]

\* Mutant of Convert: the colour is converted at half brightness.
Convert_HalfValue ==
    /\ pc = "convert"
    /\ args' = [h |-> current_hue, s |-> 100, v |-> 100]
    /\ grb_data' = RainbowHalf(current_hue)
    /\ pc' = "transmit"
    /\ UNCHANGED <<flat, channel, encoder, current_hue, failed, tx_queue, wire,
                   log_out, last_tx, steps, records, delayed>>

\* update_led_color, line 147: hsv_to_grb(current_hue, 100, 100, grb_data).
Convert ==
    /\ pc = "convert"
    /\ args' = [h |-> current_hue, s |-> 100, v |-> 100]
    /\ grb_data' = Rainbow(current_hue)
    /\ pc' = "transmit"
    /\ UNCHANGED <<flat, channel, encoder, current_hue, failed, tx_queue, wire,
                   log_out, last_tx, steps, records, delayed>>

\* What rmt_transmit does with the payload pointer when it accepts it: an
\* idle channel encodes the bytes at once, a busy one queues the pointer.
Enqueue(queue, frame) == Append(queue, [frame |-> frame])

\* update_led_color, lines 150-159: ESP_ERROR_CHECK(rmt_transmit(...)).
\* With every transaction descriptor in use the call waits for one.
Transmit ==
    /\ pc = "transmit"
    /\ last_tx' = [hue |-> current_hue, frame |-> grb_data]
    /\ \E rc \in ErrCodes :
          /\ ErrorCheck("rmt_transmit", rc, "log")
          /\ IF rc = ESP_OK
             THEN /\ Len(tx_queue) < TRANS_QUEUE_DEPTH
                  /\ tx_queue' = Enqueue(tx_queue, grb_data)
                  /\ wire' = IF tx_queue = <<>> THEN grb_data ELSE wire
             ELSE UNCHANGED <<tx_queue, wire>>
    /\ UNCHANGED <<flat, channel, encoder, current_hue, grb_data, log_out, args,
                   steps, records, delayed>>

\* Mutant of LogDue: a record every ten steps, that is every 20 degrees.
LogDue_EveryTwenty(hue) == hue % 20 = 0

\* "Debug output every 10 steps": the condition of line 162.
LogDue(hue) == hue % 10 = 0

\* Mutant of Log: the line is written with the hue of the next step.
Log_AdvancedHue ==
    /\ pc = "log"
    /\ IF LogDue(current_hue)
       THEN /\ log_out' = [hue |-> (current_hue + HUE_STEP) % 360,
                           grb |-> grb_data]
            /\ records' = IF steps < MaxSteps THEN records + 1 ELSE records
       ELSE UNCHANGED <<log_out, records>>
    /\ pc' = "advance"
    /\ UNCHANGED <<flat, channel, encoder, current_hue, grb_data, failed, tx_queue,
                   wire, args, last_tx, steps, delayed>>

\* update_led_color, lines 161-168.
Log ==
    /\ pc = "log"
    /\ IF LogDue(current_hue)
       THEN /\ log_out' = [hue |-> current_hue, grb |-> grb_data]
            /\ records' = IF steps < MaxSteps THEN records + 1 ELSE records
       ELSE UNCHANGED <<log_out, records>>
    /\ pc' = "advance"
    /\ UNCHANGED <<flat, channel, encoder, current_hue, grb_data, failed, tx_queue,
                   wire, args, last_tx, steps, delayed>>

\* Mutants of NextHue: a step of one degree, of three degrees, of five
\* degrees, and the modulo forgotten.
NextHue_StepFive(h)  == U16((h + 5) % 360)
NextHue_StepOne(h)   == U16((h + 1) % 360)
NextHue_StepThree(h) == U16((h + 3) % 360)
NextHue_NoWrap(h)    == U16(h + HUE_STEP)

\* The step transition of line 171.
NextHue(h) == U16((h + HUE_STEP) % 360)

\* update_led_color, lines 170-171, and the return to app_main.
Advance ==
    /\ pc = "advance"
    /\ current_hue' = NextHue(current_hue)
    /\ steps' = IF steps < MaxSteps THEN steps + 1 ELSE steps
    /\ pc' = "delay"
    /\ UNCHANGED <<flat, channel, encoder, grb_data, failed, tx_queue, wire,
                   log_out, args, last_tx, records, delayed>>

\* Mutant of Delay: the suspension returns into the middle of the next
\* step, after its conversion.
Delay_SkipConvert ==
    /\ pc = "delay"
    /\ delayed' = RAINBOW_SPEED
    /\ pc' = "transmit"
    /\ UNCHANGED <<flat, channel, encoder, current_hue, grb_data, failed, tx_queue,
                   wire, log_out, args, last_tx, steps, records>>

\* app_main, line 187: vTaskDelay(pdMS_TO_TICKS(RAINBOW_SPEED)).  The call
\* returns after its ticks whatever the state of the channel: the code puts
\* no condition on the pending transactions, and the number of ticks that
\* 20 ms make is a setting of the build.
Delay ==
    /\ pc = "delay"
    /\ delayed' = RAINBOW_SPEED
    /\ pc' = "convert"
    /\ UNCHANGED <<flat, channel, encoder, current_hue, grb_data, failed, tx_queue,
                   wire, log_out, args, last_tx, steps, records>>

\* The RMT transmit-done interrupt: the transaction on the line is retired
\* and the next queued one, if any, is encoded from the buffer it points
\* to.  abort() stops the system, interrupts included.
TxDone ==
    /\ pc # "abort"
    /\ tx_queue # <<>>
    /\ tx_queue' = Tail(tx_queue)
    /\ wire' = IF Len(tx_queue) > 1 THEN grb_data ELSE wire
    /\ UNCHANGED <<flat, pc, channel, encoder, current_hue, grb_data, failed,
                   log_out, args, last_tx, steps, records, delayed>>

Next ==
    \/ NewTxChannel
    \/ NewLedStripEncoder
    \/ RmtEnable
    \/ Convert
    \/ Transmit
    \/ Log
    \/ Advance
    \/ Delay
    \/ TxDone

Spec == Init /\ [][Next]_vars

\* The scheduler keeps running the one task and the RMT peripheral keeps
\* finishing the frame on the line.
Task ==
    \/ NewTxChannel
    \/ NewLedStripEncoder
    \/ RmtEnable
    \/ Convert
    \/ Transmit
    \/ Log
    \/ Advance
    \/ Delay

LiveSpec == Init /\ [][Next]_vars /\ WF_vars(Task) /\ WF_vars(TxDone)

(***************************************************************************)
(* The step transition on its own, from any starting hue (kept in args.h). *)
(***************************************************************************)

InitPeriod ==
    /\ pc = "next_hue"
    /\ current_hue \in 0..359
    /\ args = [h |-> current_hue, s |-> 100, v |-> 100]
    /\ channel = "null"
    /\ encoder = "null"
    /\ grb_data = <<0, 0, 0>>
    /\ failed = "none"
    /\ tx_queue = <<>>
    /\ wire = <<>>
    /\ log_out = NoRecord
    /\ last_tx = NoTx
    /\ steps = 0
    /\ records = 0
    /\ delayed = 0
    /\ flat = FlatInit

ApplyNextHue ==
    /\ pc = "next_hue"
    /\ steps < MaxSteps
    /\ current_hue' = NextHue(current_hue)
    /\ steps' = steps + 1
    /\ UNCHANGED <<flat, pc, channel, encoder, grb_data, failed, tx_queue, wire,
                   log_out, args, last_tx, records, delayed>>

PeriodSpec == InitPeriod /\ [][ApplyNextHue]_vars

(***************************************************************************)
(* hsv_to_grb on its own, called on arguments drawn from bounded sets.     *)
(***************************************************************************)

\* Hues are drawn from -HueMargin .. 359 + HueMargin and from HueMargin to
\* either side of -65536, 65536 and 131072, the points where the conversion
\* to uint16_t wraps once and twice; saturation and value from 100,
\* 100 - SVStride, 100 - 2 * SVStride, ... down to 0.
HueMargin == 20
SVStride  == 20

HueArgs ==
    ((0 - HueMargin)..(359 + HueMargin))
        \cup ((65536 - HueMargin)..(65536 + HueMargin))
        \cup ((0 - 65536 - HueMargin)..(0 - 65536 + HueMargin))
        \cup ((131072 - HueMargin)..(131072 + HueMargin))
SVArgs  == {100 - k * SVStride : k \in 0..(100 \div SVStride)}

InitConv ==
    /\ pc = "call_hsv_to_grb"
    /\ args \in [h : HueArgs, s : SVArgs, v : SVArgs]
    /\ current_hue = 0
    /\ channel = "null"
    /\ encoder = "null"
    /\ grb_data = <<0, 0, 0>>
    /\ failed = "none"
    /\ tx_queue = <<>>
    /\ wire = <<>>
    /\ log_out = NoRecord
    /\ last_tx = NoTx
    /\ steps = 0
    /\ records = 0
    /\ delayed = 0
    /\ flat = FlatInit

CallHsvToGrb ==
    /\ pc = "call_hsv_to_grb"
    /\ grb_data' = hsv_to_grb(args.h, args.s, args.v)
    /\ pc' = "returned"
    /\ UNCHANGED <<flat, channel, encoder, current_hue, failed, tx_queue, wire,
                   log_out, args, last_tx, steps, records, delayed>>

ConvSpec == InitConv /\ [][CallHsvToGrb]_vars

(***************************************************************************)
(* The flat example, led_strip_example_main.c: app_main with the bring-up  *)
(* and the loop written inline.  Its state is the record flat.  It is run  *)
(* side by side with the driver: the driver takes a step, then the example *)
(* takes its own next step and gets from each checked call the error code  *)
(* the driver got from the same call, and its transmit-done interrupt      *)
(* arrives when the driver's does.                                         *)
(***************************************************************************)

FLAT_RAINBOW_SPEED     == 20
FLAT_HUE_STEP          == 2
FLAT_TRANS_QUEUE_DEPTH == 4

\* ESP_ERROR_CHECK(x) in app_main of the example.
FlatErrorCheck(f, call, rc, next) ==
    [f EXCEPT !.pc     = IF rc = ESP_OK THEN next ELSE "abort",
              !.failed = IF rc = ESP_OK THEN @ ELSE call]

\* Example, line 62.
FlatNewTxChannel(rc) ==
    /\ flat.pc = "rmt_new_tx_channel"
    /\ flat' = [FlatErrorCheck(flat, "rmt_new_tx_channel", rc,
                               "rmt_new_led_strip_encoder")
                  EXCEPT !.led_chan = IF rc = ESP_OK THEN "init" ELSE @]
    /\ UNCHANGED driver_vars

\* Example, line 68.
FlatNewLedStripEncoder(rc) ==
    /\ flat.pc = "rmt_new_led_strip_encoder"
    /\ flat' = [FlatErrorCheck(flat, "rmt_new_led_strip_encoder", rc,
                               "rmt_enable")
                  EXCEPT !.led_encoder = IF rc = ESP_OK THEN "created" ELSE @]
    /\ UNCHANGED driver_vars

\* Example, line 69.
FlatRmtEnable(rc) ==
    /\ flat.pc = "rmt_enable"
    /\ flat' = [FlatErrorCheck(flat, "rmt_enable", rc, "convert")
                  EXCEPT !.led_chan = IF rc = ESP_OK THEN "enabled" ELSE @]
    /\ UNCHANGED driver_vars

\* Example, line 77: hsv_to_grb(hue, 100, 100, grb_data), the function of
\* lines 22-48, which is the code of hsv_to_grb of the driver.
FlatConvert ==
    /\ flat.pc = "convert"
    /\ flat' = [flat EXCEPT !.grb_data = Rainbow(flat.hue),
                            !.pc = "transmit"]
    /\ UNCHANGED driver_vars

\* Example, line 80.
FlatTransmit(rc) ==
    /\ flat.pc = "transmit"
    /\ rc = ESP_OK => Len(flat.tx_queue) < FLAT_TRANS_QUEUE_DEPTH
    /\ flat' = [FlatErrorCheck(flat, "rmt_transmit", rc, "log")
                  EXCEPT !.last_tx = [hue |-> flat.hue,
                                      frame |-> flat.grb_data],
                         !.tx_queue = IF rc = ESP_OK
                                      THEN Enqueue(@, flat.grb_data)
                                      ELSE @,
                         !.wire = IF rc = ESP_OK /\ flat.tx_queue = <<>>
                                  THEN flat.grb_data
                                  ELSE @]
    /\ UNCHANGED driver_vars

\* Example, lines 82-86.
FlatLog ==
    /\ flat.pc = "log"
    /\ flat' = IF flat.hue % 10 = 0
               THEN [flat EXCEPT
                       !.log_out = [hue |-> flat.hue, grb |-> flat.grb_data],
                       !.records = IF flat.steps < MaxSteps THEN @ + 1 ELSE @,
                       !.pc = "advance"]
               ELSE [flat EXCEPT !.pc = "advance"]
    /\ UNCHANGED driver_vars

\* Mutant of FlatNextHue: a step of four degrees.
FlatNextHue_StepFour(h) == U16((h + 4) % 360)

\* Example, line 89.
FlatNextHue(h) == U16((h + FLAT_HUE_STEP) % 360)

FlatAdvance ==
    /\ flat.pc = "advance"
    /\ flat' = [flat EXCEPT
                  !.hue = FlatNextHue(@),
                  !.steps = IF @ < MaxSteps THEN @ + 1 ELSE @,
                  !.pc = "delay"]
    /\ UNCHANGED driver_vars

\* Example, line 90: returns after its ticks whatever the state of the
\* channel.
FlatDelay ==
    /\ flat.pc = "delay"
    /\ flat' = [flat EXCEPT !.delayed = FLAT_RAINBOW_SPEED,
                            !.pc = "convert"]
    /\ UNCHANGED driver_vars

\* The transmit-done interrupt of the example's channel.
FlatTxDone ==
    /\ flat.pc # "abort"
    /\ flat.tx_queue # <<>>
    /\ flat' = [flat EXCEPT
                  !.tx_queue = Tail(@),
                  !.wire = IF Len(flat.tx_queue) > 1
                           THEN flat.grb_data
                           ELSE @]
    /\ UNCHANGED driver_vars

\* The two programs are at the same point with as many transactions pending.
Synced ==
    /\ flat.pc = pc
    /\ flat.steps = steps
    /\ Len(flat.tx_queue) = Len(tx_queue)

\* The error code the driver got from its last call of the named function.
SameOutcome(call) == IF failed = call THEN ESP_FAIL ELSE ESP_OK

DriverStep == Synced /\ Next

FlatTaskStep ==
    /\ flat.pc # pc
    /\ \/ FlatNewTxChannel(SameOutcome("rmt_new_tx_channel"))
       \/ FlatNewLedStripEncoder(SameOutcome("rmt_new_led_strip_encoder"))
       \/ FlatRmtEnable(SameOutcome("rmt_enable"))
       \/ FlatConvert
       \/ FlatTransmit(SameOutcome("rmt_transmit"))
       \/ FlatLog
       \/ FlatAdvance
       \/ FlatDelay

FlatTxDoneStep ==
    /\ flat.pc = pc
    /\ Len(flat.tx_queue) > Len(tx_queue)
    /\ FlatTxDone

PairNext ==
    \/ DriverStep
    \/ FlatTaskStep
    \/ FlatTxDoneStep

PairSpec == Init /\ [][PairNext]_vars

(***************************************************************************)
(* Part 4.  Properties.                                                    *)
(***************************************************************************)

\* C1: after N completed steps from construction, current_hue = (2 * N) mod
\* 360 (N below the saturation point of the step counter); 0 before the
\* first step.
C1_HueAfterNSteps == steps < MaxSteps => current_hue = (2 * steps) % 360

C1_Witness == steps = 185 /\ current_hue = 10 /\ pc = "delay"

\* C2: current_hue is an integer in [0, 360) in every reachable state,
\* inside a step and after a fatal halt included.
C2_HueInRange == current_hue \in 0..359

C2_Witness ==
    /\ pc = "abort"
    /\ failed = "rmt_transmit"
    /\ steps = 180
    /\ current_hue = 0

\* C3: from every starting hue h in [0, 360) the step transition is back at
\* h after 180 applications and at no smaller positive number of them.
C3_PeriodIs180 ==
    pc = "next_hue" => ((current_hue = args.h) <=> (steps % 180 = 0))

C3_Witness == pc = "next_hue" /\ args.h = 359 /\ steps = 180 /\ current_hue = 359

\* C4: a transmit call that returns an error halts the program: that step
\* neither advances current_hue nor emits a record, and from the halt on no
\* step, transmission, record or hue update happens.
C4_FatalPropagation ==
    [][ /\ (failed' = "rmt_transmit" /\ failed # "rmt_transmit")
            => /\ pc' = "abort"
               /\ current_hue' = current_hue
               /\ log_out' = log_out
               /\ records' = records
               /\ steps' = steps
        /\ failed = "rmt_transmit"
            => /\ pc = "abort"
               /\ UNCHANGED <<pc, current_hue, grb_data, log_out, last_tx,
                              tx_queue, wire, steps, records, args>>
      ]_vars

C4_Witness ==
    /\ pc = "abort"
    /\ failed = "rmt_transmit"
    /\ steps = 5
    /\ current_hue = 10
    /\ log_out.hue = 0

\* C5 (as claimed): one record per 10-step interval, 18 records over the
\* 180 steps of a full cycle.
C5_EighteenRecordsPerCycle ==
    /\ steps = 10 => records = 1
    /\ steps = 180 => records = 18

\* C6: a record is emitted exactly by the log point of a successful step
\* whose starting hue is a multiple of 10, and at no other point.
C6_RecordIffHueMultipleOfTen ==
    [][ (log_out' # log_out)
            <=> (pc = "log" /\ pc' = "advance" /\ args.h % 10 = 0) ]_vars

C6_Witness == pc = "advance" /\ current_hue = 350 /\ log_out.hue = 350

\* The order of the task's positions: bring-up, then convert, transmit,
\* log, advance, delay, round and round; abort from any checked call.
StepOrder ==
    {<<"rmt_new_tx_channel", "rmt_new_led_strip_encoder">>,
     <<"rmt_new_led_strip_encoder", "rmt_enable">>,
     <<"rmt_enable", "convert">>,
     <<"convert", "transmit">>,
     <<"transmit", "log">>,
     <<"log", "advance">>,
     <<"advance", "delay">>,
     <<"delay", "convert">>,
     <<"rmt_new_tx_channel", "abort">>,
     <<"rmt_new_led_strip_encoder", "abort">>,
     <<"rmt_enable", "abort">>,
     <<"transmit", "abort">>}

\* C7: a step converts, transmits, conditionally records and then advances,
\* in this order; the frame handed to the transmitter is
\* hsv_to_grb(h, 100, 100) for the hue h the step started with, and the hue
\* advances only after that transmit call has returned ESP_OK.
C7_StepOrder ==
    [][ /\ pc' # pc => <<pc, pc'>> \in StepOrder
        /\ grb_data' # grb_data => pc = "convert"
        /\ last_tx' # last_tx
            => /\ pc = "transmit"
               /\ args = [h |-> current_hue, s |-> 100, v |-> 100]
               /\ last_tx'.hue = current_hue
               /\ last_tx'.frame = hsv_to_grb(current_hue, 100, 100)
        /\ log_out' # log_out => pc = "log" /\ last_tx.hue = current_hue
        /\ current_hue' # current_hue
            => /\ pc = "advance"
               /\ last_tx.hue = current_hue
               /\ failed = "none"
      ]_vars

C7_Witness ==
    /\ pc = "delay"
    /\ current_hue = 82
    /\ last_tx = [hue |-> 80, frame |-> <<255, 169, 0>>]

\* C8 (as claimed): the transmit call is blocking, so once a step is past
\* it no transmission is pending, and at most one frame is ever in flight.
C8_BlockingTransmit ==
    /\ pc \in {"log", "advance", "delay"} => tx_queue = <<>>
    /\ Len(tx_queue) <= 1

\* C9: steps and 20 ms suspensions strictly alternate, and unless a checked
\* call fails the loop runs forever: every step is followed by a suspension
\* and another step, and every even hue is handed to the transmitter again
\* and again.
C9_RunsForever ==
    /\ [][ /\ (pc = "advance" /\ pc' # pc) => pc' = "delay"
           /\ (pc = "delay" /\ pc' # pc)
               => pc' = "convert" /\ delayed' = RAINBOW_SPEED
           /\ (pc' = "convert" /\ pc # "convert")
               => pc \in {"delay", "rmt_enable"}
         ]_vars
    /\ (pc = "advance") ~> (pc = "delay")
    /\ (pc = "delay") ~> (pc = "convert")
    /\ \/ <>(pc = "abort")
       \/ \A h \in {2 * k : k \in 0..179} :
             []<>(pc = "log" /\ last_tx.hue = h)

C9_Witness ==
    /\ pc = "convert"
    /\ steps = MaxSteps
    /\ current_hue = 0
    /\ delayed = RAINBOW_SPEED

\* C10: the three bytes hsv_to_grb stores are the scaled r, g, b of the
\* sector decomposition, reordered and nothing else: byte 0 is green,
\* byte 1 is red, byte 2 is blue.
C10_ChannelOrder ==
    pc = "returned"
        => LET l == HsvLocals(args.h, args.s, args.v)
           IN  /\ grb_data[1] = Scale(l.g, l.m)
               /\ grb_data[2] = Scale(l.r, l.m)
               /\ grb_data[3] = Scale(l.b, l.m)

C10_Witness ==
    /\ pc = "returned"
    /\ args = [h |-> 80, s |-> 60, v |-> 80]
    /\ grb_data[1] > grb_data[2]
    /\ grb_data[2] > grb_data[3]
    /\ grb_data[3] > 0

\* The wire triples of the six sector boundaries at saturation = value = 100.
Golden ==
    [h \in {0, 60, 120, 180, 240, 300} |->
        CASE h = 0   -> <<0, 255, 0>>
          [] h = 60  -> <<255, 255, 0>>
          [] h = 120 -> <<255, 0, 0>>
          [] h = 180 -> <<255, 0, 255>>
          [] h = 240 -> <<0, 0, 255>>
          [] h = 300 -> <<0, 255, 255>>]

\* C11: at saturation = value = 100 a hue on a sector boundary is converted
\* by the rule of the sector that starts there: 0 -> [0,255,0],
\* 60 -> [255,255,0], 120 -> [255,0,0], 180 -> [255,0,255],
\* 240 -> [0,0,255], 300 -> [0,255,255].
C11_BoundaryGolden ==
    (/\ pc = "returned"
     /\ args.s = 100
     /\ args.v = 100
     /\ args.h \in DOMAIN Golden)
        => grb_data = Golden[args.h]

C11_Witness ==
    /\ pc = "returned"
    /\ args = [h |-> 240, s |-> 100, v |-> 100]
    /\ grb_data = <<0, 0, 255>>

\* C12 (as claimed): for every integer hue h, negative ones included,
\* hsv_to_grb(h, s, v) equals hsv_to_grb(h mod 360, s, v).
C12_AnyIntegerHue ==
    pc = "returned"
        => grb_data = hsv_to_grb(args.h % 360, args.s, args.v)

\* C12 (amended): the hue is first converted to the uint16_t parameter, that
\* is taken modulo 65536 (the residue in 0..65535), and then reduced modulo
\* 360: for every integer h, hsv_to_grb(h, s, v) equals
\* hsv_to_grb((h mod 65536) mod 360, s, v); for 0 <= h <= 65535 this is
\* hsv_to_grb(h mod 360, s, v).
C12_Uint16HueMod360 ==
    pc = "returned"
        => /\ grb_data = hsv_to_grb((args.h % 65536) % 360, args.s, args.v)
           /\ args.h \in 0..65535
                 => grb_data = hsv_to_grb(args.h % 360, args.s, args.v)

C12_Witness ==
    /\ pc = "returned"
    /\ args = [h |-> -65537, s |-> 100, v |-> 100]
    /\ grb_data = hsv_to_grb(15, 100, 100)
    /\ grb_data # hsv_to_grb(343, 100, 100)

\* C13: a record emitted by a step carries the hue the step started with,
\* not the advanced hue, and exactly the three bytes handed to rmt_transmit
\* in that same step.
C13_RecordOfThisStep ==
    [][(log_out' # log_out)
          => /\ log_out'.hue = args.h
             /\ log_out'.hue = current_hue
             /\ current_hue' = current_hue
             /\ last_tx.hue = args.h
             /\ log_out'.grb = last_tx.frame
             /\ Len(log_out'.grb) = 3]_vars

C13_Witness ==
    /\ pc = "advance"
    /\ args.h = 350
    /\ current_hue = 350
    /\ log_out = [hue |-> 350, grb |-> last_tx.frame]
    /\ last_tx = [hue |-> 350, frame |-> hsv_to_grb(350, 100, 100)]

\* C16: current_hue is even in every reachable state, so only the 180 even
\* hues are converted and transmitted, and every record carries a hue that
\* is a multiple of 10.
C16_EvenHues ==
    /\ current_hue \in {2 * k : k \in 0..179}
    /\ args # NoArgs => args.h % 2 = 0
    /\ last_tx # NoTx => last_tx.hue % 2 = 0
    /\ \A i \in 1..Len(tx_queue) :
          \E k \in 0..179 : tx_queue[i].frame = Rainbow(2 * k)
    /\ wire # <<>> => \E k \in 0..179 : wire = Rainbow(2 * k)
    /\ log_out # NoRecord => log_out.hue % 10 = 0

C16_Witness ==
    /\ steps = 179
    /\ pc = "advance"
    /\ current_hue = 358
    /\ last_tx.hue = 358
    /\ log_out.hue = 350

\* The calls of initialize_led_controller.
BringUpCalls == {"rmt_new_tx_channel", "rmt_new_led_strip_encoder", "rmt_enable"}

\* No call of update_led_color has begun.
NothingRun ==
    /\ args = NoArgs
    /\ last_tx = NoTx
    /\ log_out = NoRecord
    /\ tx_queue = <<>>
    /\ wire = <<>>
    /\ grb_data = <<0, 0, 0>>
    /\ current_hue = 0
    /\ steps = 0
    /\ delayed = 0

\* C17: no step runs and no frame is transmitted unless the TX channel was
\* created, then the LED encoder, then the channel enabled, all with
\* success; a failure of any of the three halts before the first
\* conversion, transmission, record or hue update.
C17_BringUpFirst ==
    /\ encoder = "created" => channel # "null"
    /\ channel = "enabled" => encoder = "created"
    /\ ~NothingRun => (channel = "enabled" /\ encoder = "created")
    /\ pc \in {"convert", "transmit", "log", "advance", "delay"}
          => (channel = "enabled" /\ encoder = "created" /\ failed = "none")
    /\ failed \in BringUpCalls => (pc = "abort" /\ NothingRun)
    /\ pc \in BringUpCalls => NothingRun

C17_Witness ==
    /\ pc = "abort"
    /\ failed = "rmt_enable"
    /\ channel = "init"
    /\ encoder = "created"
    /\ NothingRun

\* The set of bytes of a frame.
Bytes(frame) == {frame[i] : i \in 1..Len(frame)}

\* C18: every frame converted at saturation = value = 100 from a hue in
\* [0, 360) has at least one channel equal to 255 and at least one equal to
\* 0, and each of its three bytes is a value in 0..255 reached without
\* wrap-around.
C18_FullyBrightSaturated ==
    (/\ pc = "returned"
     /\ args.s = 100
     /\ args.v = 100
     /\ args.h \in 0..359)
        => /\ Len(grb_data) = 3
           /\ Bytes(grb_data) \subseteq 0..255
           /\ 255 \in Bytes(grb_data)
           /\ 0 \in Bytes(grb_data)

C18_Witness ==
    /\ pc = "returned"
    /\ args = [h |-> 80, s |-> 100, v |-> 100]
    /\ grb_data = <<255, 169, 0>>

Equivalent ==
    /\ flat.pc = pc
    /\ flat.led_chan = channel
    /\ flat.led_encoder = encoder
    /\ flat.hue = current_hue
    /\ flat.grb_data = grb_data
    /\ flat.failed = failed
    /\ flat.tx_queue = tx_queue
    /\ flat.wire = wire
    /\ flat.log_out = log_out
    /\ flat.last_tx = last_tx
    /\ flat.steps = steps
    /\ flat.records = records
    /\ flat.delayed = delayed

\* C15: given the same outcomes of the checked calls, the encapsulated
\* driver and the flat example are trace-equivalent: after every step of
\* the example that answers a step of the driver the two agree on the
\* frames sent, the records emitted, the hue, the delays and the fatal halt.
C15_TraceEquivalent ==
    /\ [](Synced => Equivalent)
    /\ [][(flat' # flat) => (Synced' /\ Equivalent')]_vars

C15_Witness ==
    /\ Synced
    /\ pc = "convert"
    /\ steps = 181
    /\ flat.hue = 2
    /\ flat.log_out.hue = 0
    /\ flat.last_tx = [hue |-> 0, frame |-> <<0, 255, 0>>]
    /\ flat.delayed = FLAT_RAINBOW_SPEED

====
